---- MODULE Spec2Model ----
(***************************************************************************)
(* Model of fix-db-imports.py: for each of five hardcoded paths, read the  *)
(* file, apply two regular-expression substitutions (setup block after the *)
(* authorization guard, teardown block before the trailing closer), write  *)
(* the file back and print one report line; every exception is caught per  *)
(* file.                                                                   *)
(*                                                                         *)
(* Text is a sequence of tokens.  A token is either a single character     *)
(* that the two patterns inspect (space, newline, carriage return, closing *)
(* brace) or a maximal piece of literal text that the patterns treat as a  *)
(* unit.                                                                   *)
(***************************************************************************)
EXTENDS Integers, Sequences, FiniteSets, TLC

\* ---------------------------------------------------------------- tokens
SP == "SP"        \* one space
NL == "NL"        \* "\n"
CR == "CR"        \* "\r"
RB == "}"         \* a closing brace
X == "x"          \* any other text without whitespace, guard text or "}"
IFAUTH == "if (!auth) {"
\* return res.status(401).json({ error: <q>Unauthorized<q> });  with each
\* quote independently ' or "
RETss == "return401 'Unauthorized'"
RETdd == "return401 \"Unauthorized\""
RETsd == "return401 'Unauthorized\""
RETds == "return401 \"Unauthorized'"
\* lines 12-22 of the template from "// Create database connection" up to
\* and including "const db = drizzle(sql);"
DBC == "// Create database connection ... const db = drizzle(sql);"
TRY == "try {"
FIN == "finally {"
AWAIT == "await sql.end();"

Ws == {SP, NL, CR}
Ret == {RETss, RETdd, RETsd, RETds}

\* ------------------------------------------------------- program constants
files == << "api/tenants/index.ts", "api/units/index.ts", "api/leases/index.ts",
            "api/payments/index.ts", "api/dashboard/stats.ts" >>

db_connection_code == << SP, SP, DBC, NL, NL, SP, SP, TRY, NL >>

\* replacement text of the second substitution
finally_code == << NL, SP, SP, RB, SP, FIN, NL, SP, SP, SP, SP, AWAIT, NL, SP, SP, RB, NL, RB >>

\* ------------------------------------------------------------- sequences
RECURSIVE Flatten(_)
Flatten(ss) == IF ss = << >> THEN << >> ELSE Head(ss) \o Flatten(Tail(ss))

Suffix(c, p) == SubSeq(c, p, Len(c))

\* first index >= p whose token is not whitespace (Len(c)+1 if none)
RECURSIVE WsEnd(_, _)
WsEnd(c, p) == IF p <= Len(c) /\ c[p] \in Ws THEN WsEnd(c, p + 1) ELSE p

\* --------------------------------------------------- first substitution
\* variant: the whitespace after the group is optional (\s* for \s+)
MatchGuardMissingTrailingWs(c, p) ==
    IF p > Len(c) \/ c[p] # IFAUTH THEN << 0, 0 >>
    ELSE LET b == WsEnd(c, p + 1) IN
         IF b = p + 1 \/ b > Len(c) \/ c[b] \notin Ret THEN << 0, 0 >>
         ELSE LET d == WsEnd(c, b + 1) IN
              IF d = b + 1 \/ d > Len(c) \/ c[d] # RB THEN << 0, 0 >>
              ELSE << d, WsEnd(c, d + 1) >>

\* (if \(!auth\) \{\s+return ...\);\s+\})\s+  tried at position p.
\* Result: <<index of the group's last token, index after the match>>,
\* or <<0, 0>> when the pattern does not match at p.
MatchGuard(c, p) ==
    IF p > Len(c) \/ c[p] # IFAUTH THEN << 0, 0 >>
    ELSE LET b == WsEnd(c, p + 1) IN
         IF b = p + 1 \/ b > Len(c) \/ c[b] \notin Ret THEN << 0, 0 >>
         ELSE LET d == WsEnd(c, b + 1) IN
              IF d = b + 1 \/ d > Len(c) \/ c[d] # RB THEN << 0, 0 >>
              ELSE LET e == WsEnd(c, d + 1) IN
                   IF e = d + 1 THEN << 0, 0 >> ELSE << d, e >>

\* variant: count=1, only the first match is replaced
RECURSIVE SubAFirst(_, _)
SubAFirst(c, p) ==
    IF p > Len(c) THEN << >>
    ELSE LET m == MatchGuard(c, p) IN
         IF m[2] # 0
         THEN SubSeq(c, p, m[1]) \o << NL, NL >> \o db_connection_code \o Suffix(c, m[2])
         ELSE << c[p] >> \o SubAFirst(c, p + 1)

\* re.sub scanning from p: every non-overlapping match, left to right, is
\* replaced by  \1 \n\n db_connection_code
RECURSIVE SubA(_, _)
SubA(c, p) ==
    IF p > Len(c) THEN << >>
    ELSE LET m == MatchGuard(c, p) IN
         IF m[2] # 0
         THEN SubSeq(c, p, m[1]) \o << NL, NL >> \o db_connection_code \o SubA(c, m[2])
         ELSE << c[p] >> \o SubA(c, p + 1)

\* variant: a text that already holds the setup block is left alone
TransformAOnce(c) ==
    IF \E k \in 1..Len(c) : c[k] = DBC THEN c ELSE SubA(c, 1)

TransformA(c) == SubA(c, 1)

\* --------------------------------------------------- second substitution
\* variant: re.MULTILINE, $ also matches before every newline
AtDollarMultiline(c, r) == r = Len(c) + 1 \/ (r <= Len(c) /\ c[r] = NL)

\* $ without MULTILINE: at the end of the text, or just before a newline
\* that is the last character
AtDollar(c, r) == r = Len(c) + 1 \/ (r = Len(c) /\ c[r] = NL)

\* variant: the pattern without its $ anchor
MatchCloserUnanchored(c, p) ==
    IF p + 1 > Len(c) \/ c[p] # NL \/ c[p + 1] # RB THEN 0
    ELSE WsEnd(c, p + 2)

\* (\n\})\s*$ tried at position p: \s* is greedy and gives back one
\* character at a time until $ matches.  Result: index after the match, 0
\* when there is none.
MatchCloser(c, p) ==
    IF p + 1 > Len(c) \/ c[p] # NL \/ c[p + 1] # RB THEN 0
    ELSE LET q == WsEnd(c, p + 2)
             ok == { r \in (p + 2)..q : AtDollar(c, r) }
         IN IF ok = {} THEN 0 ELSE CHOOSE r \in ok : \A s \in ok : s <= r

RECURSIVE SubB(_, _)
SubB(c, p) ==
    IF p > Len(c) THEN << >>
    ELSE LET e == MatchCloser(c, p) IN
         IF e # 0 THEN finally_code \o SubB(c, e)
         ELSE << c[p] >> \o SubB(c, p + 1)

\* variant: the teardown is added only where the setup was
TransformBWhenSetup(c) ==
    IF \E k \in 1..Len(c) : c[k] = TRY THEN SubB(c, 1) ELSE c

TransformB(c) == SubB(c, 1)

\* ------------------------------------------------------------- file I/O
\* text-mode read: universal newlines, "\r\n" and "\r" become "\n"
RECURSIVE Decode(_)
Decode(b) ==
    IF b = << >> THEN << >>
    ELSE IF Head(b) = CR
         THEN IF Len(b) >= 2 /\ b[2] = NL THEN << NL >> \o Decode(Suffix(b, 3))
              ELSE << NL >> \o Decode(Tail(b))
         ELSE << Head(b) >> \o Decode(Tail(b))

\* text-mode write on a POSIX host: "\n" is written as os.linesep = "\n"
linesep == << NL >>
Encode(c) == Flatten([k \in 1..Len(c) |-> IF c[k] = NL THEN linesep ELSE << c[k] >>])


\* ------------------------------------------------------------ the program
VARIABLES
    fs,        \* path -> the file's characters, or Missing
    fsOrig,    \* fs before the first run (history)
    fsStart,   \* fs at the start of the current run (history)
    run,       \* number of the current run of the script
    i,         \* position of the loop in files
    pc,        \* position within the loop body
    content,   \* the local variable content
    err,       \* the exception being handled
    out,       \* lines printed by the current run
    ops,       \* steps performed by the current run (history)
    exitCode   \* exit status of the current run, NoExit while it runs

vars == << fs, fsOrig, fsStart, run, i, pc, content, err, out, ops, exitCode >>

Missing == "missing"
\* the exit status: no value while the script runs, then <<status>>
NoExit == << >>
NoErr == "none"

\* a path that is not in the list
OtherPath == "api/properties/index.ts"
FileSet == { files[k] : k \in 1..Len(files) }
Paths == FileSet \cup { OtherPath }

\* the loop variable filepath
filepath == files[i]

\* the path named by open(filepath, 'r') and by open(filepath, 'w')
ReadPath == filepath
\* variant: the result goes to another file
WritePathOther == OtherPath
WritePath == filepath

Op(o, p, ok, d) == [op |-> o, path |-> p, ok |-> ok, data |-> d]

\* open + read succeed
ReadOk ==
    /\ pc = "read" /\ i <= Len(files)
    /\ fs[ReadPath] # Missing
    /\ content' = Decode(fs[ReadPath])
    /\ ops' = Append(ops, Op("read", ReadPath, TRUE, Decode(fs[ReadPath])))
    /\ pc' = "subA"
    /\ UNCHANGED << fs, fsOrig, fsStart, run, i, err, out, exitCode >>

\* open raises FileNotFoundError
ReadMissing ==
    /\ pc = "read" /\ i <= Len(files)
    /\ fs[ReadPath] = Missing
    /\ ops' = Append(ops, Op("read", ReadPath, FALSE, << >>))
    /\ err' = "[Errno 2] No such file or directory"
    /\ pc' = "except"
    /\ UNCHANGED << fs, fsOrig, fsStart, run, i, content, out, exitCode >>

\* variant: the file is opened in a mode that truncates it before the
\* read fails
ReadFaultTruncates ==
    /\ pc = "read" /\ i <= Len(files)
    /\ fs[ReadPath] # Missing
    /\ fs' = [fs EXCEPT ![ReadPath] = << >>]
    /\ ops' = Append(ops, Op("read", ReadPath, FALSE, << >>))
    /\ err' = "[Errno 13] Permission denied"
    /\ pc' = "except"
    /\ UNCHANGED << fsOrig, fsStart, run, i, content, out, exitCode >>

\* open or read raises on an existing file (permissions, undecodable bytes)
ReadFault ==
    /\ pc = "read" /\ i <= Len(files)
    /\ fs[ReadPath] # Missing
    /\ ops' = Append(ops, Op("read", ReadPath, FALSE, << >>))
    /\ err' = "[Errno 13] Permission denied"
    /\ pc' = "except"
    /\ UNCHANGED << fs, fsOrig, fsStart, run, i, content, out, exitCode >>

SubstituteA ==
    /\ pc = "subA"
    /\ content' = TransformA(content)
    /\ ops' = Append(ops, Op("subA", filepath, TRUE, TransformA(content)))
    /\ pc' = "subB"
    /\ UNCHANGED << fs, fsOrig, fsStart, run, i, err, out, exitCode >>

SubstituteB ==
    /\ pc = "subB"
    /\ content' = TransformB(content)
    /\ ops' = Append(ops, Op("subB", filepath, TRUE, TransformB(content)))
    /\ pc' = "write"
    /\ UNCHANGED << fs, fsOrig, fsStart, run, i, err, out, exitCode >>

\* open(filepath, 'w') truncates, write and close store the text
WriteOk ==
    /\ pc = "write"
    /\ fs' = [fs EXCEPT ![WritePath] = Encode(content)]
    /\ ops' = Append(ops, Op("write", WritePath, TRUE, content))
    /\ pc' = "fixed"
    /\ UNCHANGED << fsOrig, fsStart, run, i, content, err, out, exitCode >>

\* what a failed write leaves behind: open raised (file untouched), or the
\* file was truncated and write/close raised with nothing or only a prefix
\* stored
FailedWriteLeaves(old, new) ==
    { old, << >>, SubSeq(new, 1, Len(new) \div 2) }

\* variant: the failure of the write is not raised
WriteFaultSwallowed ==
    /\ pc = "write"
    /\ ops' = Append(ops, Op("write", WritePath, FALSE, content))
    /\ pc' = "fixed"
    /\ UNCHANGED << fs, fsOrig, fsStart, run, i, content, err, out, exitCode >>

WriteFault ==
    /\ pc = "write"
    /\ \E left \in FailedWriteLeaves(fs[WritePath], Encode(content)) :
          /\ fs' = [fs EXCEPT ![WritePath] = left]
          /\ err' = IF left = fs[WritePath] THEN "[Errno 13] Permission denied"
                    ELSE "[Errno 28] No space left on device"
    /\ ops' = Append(ops, Op("write", WritePath, FALSE, content))
    /\ pc' = "except"
    /\ UNCHANGED << fsOrig, fsStart, run, i, content, out, exitCode >>

Line(kind, p, e) == [kind |-> kind, path |-> p, error |-> e]

\* print(f"Fixed {filepath}") and the next iteration
PrintFixed ==
    /\ pc = "fixed"
    /\ out' = Append(out, Line("Fixed", filepath, NoErr))
    /\ i' = i + 1
    /\ pc' = "read"
    /\ UNCHANGED << fs, fsOrig, fsStart, run, content, err, ops, exitCode >>

\* variant: the exception is reported and ends the script
PrintErrorAbort ==
    /\ pc = "except"
    /\ out' = Append(out, Line("Error", filepath, err))
    /\ pc' = "done"
    /\ exitCode' = << 1 >>
    /\ UNCHANGED << fs, fsOrig, fsStart, run, i, content, err, ops >>

\* except Exception as e: print(f"Error processing {filepath}: {e}")
PrintError ==
    /\ pc = "except"
    /\ out' = Append(out, Line("Error", filepath, err))
    /\ err' = NoErr
    /\ i' = i + 1
    /\ pc' = "read"
    /\ UNCHANGED << fs, fsOrig, fsStart, run, content, ops, exitCode >>

\* the loop is exhausted and the script ends
Exit ==
    /\ pc = "read" /\ i > Len(files)
    /\ pc' = "done"
    /\ exitCode' = << 0 >>
    /\ UNCHANGED << fs, fsOrig, fsStart, run, i, content, err, out, ops >>

\* the script is started again on the files the previous run left
MaxRuns == 2

Rerun ==
    /\ pc = "done" /\ run < MaxRuns
    /\ run' = run + 1
    /\ fsStart' = fs
    /\ i' = 1
    /\ pc' = "read"
    /\ content' = << >>
    /\ err' = NoErr
    /\ out' = << >>
    /\ ops' = << >>
    /\ exitCode' = NoExit
    /\ UNCHANGED << fs, fsOrig >>

Start(f) ==
    /\ fs = f /\ fsOrig = f /\ fsStart = f
    /\ run = 1 /\ i = 1 /\ pc = "read"
    /\ content = << >> /\ err = NoErr
    /\ out = << >> /\ ops = << >>
    /\ exitCode = NoExit

\* ------------------------------------- one run with I/O faults on any file
GuardS == << IFAUTH, NL, SP, RETss, NL, SP, RB >>
GuardD == << IFAUTH, SP, RETdd, SP, RB >>

Samples == <<
    << X, NL, SP >> \o GuardS \o << NL, SP, X, NL, RB, NL >>,
    << X, NL, RB >>,
    << X, CR, NL, X, CR >>,
    GuardD \o << NL >> \o GuardS \o << SP, X, NL, RB >>,
    << >> >>

Init ==
    \E r \in 0..(Len(Samples) - 1), present \in SUBSET (1..Len(files)) :
        Start([p \in Paths |->
                 IF p = OtherPath THEN << X, NL >>
                 ELSE LET k == CHOOSE n \in 1..Len(files) : files[n] = p IN
                      IF k \in present THEN Samples[((k + r) % Len(Samples)) + 1]
                      ELSE Missing])

Next ==
    \/ ReadOk \/ ReadMissing \/ ReadFault
    \/ SubstituteA \/ SubstituteB
    \/ WriteOk \/ WriteFault
    \/ PrintFixed \/ PrintError
    \/ Exit

Spec == Init /\ [][Next]_vars

\* ------------------- repeated runs on one file of bounded arbitrary text
MaxSegs == 4

Segments == { << SP >>, << NL >>, << X >>, << RB >>, << NL, RB >>,
              << IFAUTH, SP, RETss, SP, RB >>,
              << IFAUTH, NL, SP, RETdd, NL, RB >>,
              << IFAUTH, RETsd, SP, RB >> }

RECURSIVE Texts(_)
Texts(n) ==
    IF n = 0 THEN { << >> }
    ELSE LET shorter == Texts(n - 1) IN
         shorter \cup { t \o s : t \in shorter, s \in Segments }

InitPatch ==
    \E t \in Texts(MaxSegs) :
        Start([p \in Paths |-> IF p = files[1] THEN t ELSE Missing])

NextPatch ==
    \/ ReadOk \/ ReadMissing
    \/ SubstituteA \/ SubstituteB
    \/ WriteOk
    \/ PrintFixed \/ PrintError
    \/ Exit
    \/ Rerun

SpecPatch == InitPatch /\ [][NextPatch]_vars


\* ------------------------------------------- vocabulary of the properties
\* These describe texts by what they contain; none of them uses the
\* substitution operators above.

Occurs(pat, c, k) ==
    /\ k + Len(pat) - 1 <= Len(c)
    /\ SubSeq(c, k, k + Len(pat) - 1) = pat

Count(pat, c) == Cardinality({ k \in 1..Len(c) : Occurs(pat, c, k) })

EndsWith(pat, c) ==
    Len(c) >= Len(pat) /\ SubSeq(c, Len(c) - Len(pat) + 1, Len(c)) = pat

AllWs(c, a, b) == \A j \in a..b : c[j] \in Ws

\* the guard block, from "if (!auth) {" at p to its closing brace at d
GuardBlockFromTo(c, p, d) ==
    /\ c[p] = IFAUTH
    /\ c[d] = RB
    /\ \E b \in (p + 2)..(d - 2) :
          /\ c[b] \in Ret
          /\ AllWs(c, p + 1, b - 1)
          /\ AllWs(c, b + 1, d - 1)

\* a guard occurrence: the guard block followed by at least one whitespace
\* character
GuardFromTo(c, p, d) ==
    /\ GuardBlockFromTo(c, p, d)
    /\ d + 1 <= Len(c) /\ c[d + 1] \in Ws

GuardStarts(c) ==
    { p \in 1..Len(c) : c[p] = IFAUTH /\ \E d \in (p + 4)..Len(c) : GuardFromTo(c, p, d) }

GuardCloses(c) ==
    { d \in 1..Len(c) : c[d] = RB /\ \E p \in 1..(d - 4) : GuardFromTo(c, p, d) }

GuardCount(c) == Cardinality(GuardStarts(c))

\* some guard is followed by nothing but whitespace up to the end of the text
GuardReachesEnd(c) == \E d \in GuardCloses(c) : AllWs(c, d + 1, Len(c))

\* the last closing brace of the text closes a guard block (followed by
\* whitespace or not)
FinalBraceClosesGuardBlock(c) ==
    \E d \in 1..Len(c) : /\ c[d] = RB
                         /\ AllWs(c, d + 1, Len(c))
                         /\ \E p \in 1..(d - 4) : GuardBlockFromTo(c, p, d)

\* the text ends with newline, closing brace, optional whitespace
EndsWithCloser(c) ==
    \E k \in 1..(Len(c) - 1) : c[k] = NL /\ c[k + 1] = RB /\ AllWs(c, k + 2, Len(c))

Unpatched(c) == \A k \in 1..Len(c) : c[k] \notin { DBC, TRY, FIN, AWAIT }

SetupBlock == db_connection_code
\* the setup block without the indentation of its first line
SetupText == SubSeq(db_connection_code, 3, Len(db_connection_code))
\* the teardown block: the replacement text without the final "\n}"
TeardownBlock == SubSeq(finally_code, 1, Len(finally_code) - 2)

\* p was written by the current run
Patched(p) == \E k \in 1..Len(ops) : ops[k] = Op("write", p, TRUE, ops[k].data)
\* the text of p as this run read it, and as it now reads
In(p) == Decode(fsStart[p])
Out(p) == Decode(fs[p])

\* exactly one setup block, right after a guard and the blank line "\n\n"
SetupOnceAfterGuard(o) ==
    /\ Count(SetupBlock, o) = 1
    /\ \E d \in GuardCloses(o) : Occurs(<< NL, NL >> \o SetupBlock, o, d + 1)

\* exactly one teardown block, and the text ends with it and "\n}"
TeardownOnceBeforeFinalBrace(o) ==
    /\ Count(TeardownBlock, o) = 1
    /\ EndsWith(TeardownBlock \o << NL, RB >>, o)

\* C1 as stated: any unpatched text that contains the guard and ends with
\* the trailing closer comes out with the setup block exactly once right
\* after the guard and the teardown block exactly once right before the
\* final closing brace.
C1_AsStated ==
    \A p \in FileSet :
        (pc = "done" /\ Patched(p) /\ Unpatched(In(p)) /\ GuardCount(In(p)) >= 1 /\ EndsWithCloser(In(p)))
        => (SetupOnceAfterGuard(Out(p)) /\ TeardownOnceBeforeFinalBrace(Out(p)))

\* the text has exactly one guard, and the final closing brace is not that
\* guard's own
OneGuardAndCloser(c) ==
    /\ Unpatched(c)
    /\ GuardCount(c) = 1
    /\ ~GuardReachesEnd(c)
    /\ EndsWithCloser(c)

\* C1 amended: for an unpatched text with exactly one guard occurrence
\* whose closing brace is not the final one, and ending with the trailing
\* closer, one run leaves the setup block exactly once, right after the
\* guard and a blank line, and the teardown block exactly once, right
\* before the final "\n}".
C1_SetupAndTeardownOnce ==
    \A p \in FileSet :
        (pc = "done" /\ Patched(p) /\ OneGuardAndCloser(In(p)))
        => (SetupOnceAfterGuard(Out(p)) /\ TeardownOnceBeforeFinalBrace(Out(p)))

C1_Witness ==
    /\ Patched(files[1]) /\ OneGuardAndCloser(In(files[1]))
    /\ pc = "done" /\ run = 1
    /\ Out(files[1]) # In(files[1])


\* o is c with one block ins1 inserted at a and one block ins2 inserted at b
TwoInsertions(c, o, ins1, ins2) ==
    /\ Len(o) = Len(c) + Len(ins1) + Len(ins2)
    /\ \E a \in 0..Len(c) : \E b \in a..Len(c) :
          o = SubSeq(c, 1, a) \o ins1 \o SubSeq(c, a + 1, b) \o ins2 \o SubSeq(c, b + 1, Len(c))

\* C2 as stated: the output is the input with only two insertions, the
\* setup block (with or without its leading blank line) and the teardown
\* block; every original character, whitespace included, stays in place.
C2_AsStated ==
    \A p \in FileSet :
        (pc = "done" /\ Patched(p) /\ Unpatched(In(p)) /\ GuardCount(In(p)) >= 1 /\ EndsWithCloser(In(p)))
        => \/ TwoInsertions(In(p), Out(p), SetupBlock, TeardownBlock)
           \/ TwoInsertions(In(p), Out(p), << NL, NL >> \o SetupBlock, TeardownBlock)

\* the end of the whitespace run that starts after position d
RunEnd(c, d) ==
    CHOOSE e \in (d + 1)..(Len(c) + 1) :
        AllWs(c, d + 1, e - 1) /\ (e = Len(c) + 1 \/ c[e] \notin Ws)

\* c with the whitespace run after its guard replaced by "\n\n" and the
\* setup block
SetupSpliced(c) ==
    LET d == CHOOSE x \in GuardCloses(c) : TRUE IN
    SubSeq(c, 1, d) \o << NL, NL >> \o SetupBlock \o SubSeq(c, RunEnd(c, d), Len(c))

\* m with its final "\n}" and the whitespace after it replaced by the
\* teardown block and "\n}"
TeardownSpliced(m) ==
    LET k == CHOOSE x \in 1..(Len(m) - 1) :
                 m[x] = NL /\ m[x + 1] = RB /\ AllWs(m, x + 2, Len(m)) IN
    SubSeq(m, 1, k - 1) \o TeardownBlock \o << NL, RB >>

\* C2 amended: for an unpatched text with exactly one guard whose closing
\* brace is not the final one, and ending with the trailing closer, the
\* output is the input with exactly two replacements and every other
\* character kept in order: the whitespace run after the guard becomes
\* "\n\n" plus the setup block, and then the final "\n}" with any
\* whitespace after it becomes the teardown block plus "\n}".
C2_OnlyTwoReplacements ==
    \A p \in FileSet :
        (pc = "done" /\ Patched(p) /\ OneGuardAndCloser(In(p)))
        => Out(p) = TeardownSpliced(SetupSpliced(In(p)))

\* a run on a text whose guard is followed by a space and whose final brace
\* is followed by a newline: both are lost
C2_Witness ==
    /\ Patched(files[1]) /\ OneGuardAndCloser(In(files[1]))
    /\ pc = "done" /\ run = 1
    /\ \E d \in GuardCloses(In(files[1])) : In(files[1])[d + 1] = SP
    /\ EndsWith(<< RB, NL >>, In(files[1]))

\* C3 as stated: a text without the guard gets no setup block and gets the
\* teardown block before its trailing closer; and whether the teardown
\* block is inserted is decided by the input's trailing closer alone,
\* whether or not the first substitution matched.
C3_AsStated ==
    \A p \in FileSet :
        (pc = "done" /\ Patched(p) /\ Unpatched(In(p)))
        => /\ (GuardCount(In(p)) = 0 /\ EndsWithCloser(In(p)))
                => (Count(SetupBlock, Out(p)) = 0 /\ TeardownOnceBeforeFinalBrace(Out(p)))
           /\ Count(TeardownBlock, Out(p)) = 1 <=> EndsWithCloser(In(p))

\* the text the first substitution handed to the second in this run
AfterA(p) == ops[CHOOSE k \in 1..Len(ops) : ops[k].path = p /\ ops[k].op = "subA"].data

\* C3 amended: a text without the guard that ends with the trailing closer
\* gets no setup block and gets the teardown block before the closer; the
\* second substitution runs whether or not the first matched, and inserts
\* the teardown block exactly when the text the first one hands over ends
\* with the trailing closer, which without a guard is the input itself.
C3_TeardownWithoutSetup ==
    \A p \in FileSet :
        (pc = "done" /\ Patched(p) /\ Unpatched(In(p)))
        => /\ (GuardCount(In(p)) = 0 /\ EndsWithCloser(In(p)))
                => (Count(SetupBlock, Out(p)) = 0 /\ TeardownOnceBeforeFinalBrace(Out(p)))
           /\ GuardCount(In(p)) = 0 => AfterA(p) = In(p)
           /\ Count(TeardownBlock, Out(p)) = 1 <=> EndsWithCloser(AfterA(p))

C3_Witness ==
    /\ Patched(files[1]) /\ Unpatched(In(files[1]))
    /\ GuardCount(In(files[1])) = 0 /\ EndsWithCloser(In(files[1]))
    /\ Len(In(files[1])) > 2
    /\ pc = "done" /\ run = 1

\* the text of p before the first run
Orig(p) == Decode(fsOrig[p])

\* C4 as stated: after the second run on an unpatched text that contains
\* the guard and the trailing closer there are two setup blocks and two
\* teardown blocks, and the text differs from the one the first run left.
C4_AsStated ==
    \A p \in FileSet :
        (run = 2 /\ pc = "done" /\ Patched(p) /\ fsOrig[p] # Missing /\ Unpatched(Orig(p))
            /\ GuardCount(Orig(p)) >= 1 /\ EndsWithCloser(Orig(p)))
        => /\ Count(SetupText, Out(p)) = 2
           /\ Count(TeardownBlock, Out(p)) = 2
           /\ Out(p) # In(p)

\* C4 amended: after the second run on an unpatched text with exactly one
\* guard occurrence, ending with the trailing closer, whose final closing
\* brace does not close a guard block, the setup text occurs twice (the
\* second run's copy verbatim, the first run's copy without the two spaces
\* that indented it), the teardown block occurs twice, and the text
\* differs from the one the first run left.
C4_SecondRunDuplicates ==
    \A p \in FileSet :
        (run = 2 /\ pc = "done" /\ Patched(p) /\ fsOrig[p] # Missing /\ OneGuardAndCloser(Orig(p))
            /\ ~FinalBraceClosesGuardBlock(Orig(p)))
        => /\ Count(SetupText, Out(p)) = 2
           /\ Count(SetupBlock, Out(p)) = 1
           /\ Count(TeardownBlock, Out(p)) = 2
           /\ Out(p) # In(p)

C4_Witness ==
    /\ run = 2 /\ pc = "done" /\ Patched(files[1])
    /\ OneGuardAndCloser(Orig(files[1]))
    /\ ~FinalBraceClosesGuardBlock(Orig(files[1]))
    /\ Count(TeardownBlock, In(files[1])) = 1


\* the position of p in the list
Index(p) == CHOOSE n \in 1..Len(files) : files[n] = p

\* the lines printed for p
Lines(p) == { k \in 1..Len(out) : out[k].path = p }
ReadData(p) == { ops[k].data : k \in { n \in 1..Len(ops) : ops[n] = Op("read", p, TRUE, ops[n].data) } }
WrittenData(p) == { ops[k].data : k \in { n \in 1..Len(ops) : ops[n] = Op("write", p, TRUE, ops[n].data) } }

\* C9: a file that was read and written is reported "Fixed" whatever the
\* substitutions matched; when its text has no guard occurrence and does
\* not end with the trailing closer, the text written is the text read,
\* the file reads as before, and "Fixed" is still what is printed.
C9_NoMatchValidation ==
    \A p \in FileSet :
        Patched(p) =>
          /\ \A k \in Lines(p) : out[k] = Line("Fixed", p, NoErr)
          /\ Index(p) < i => Lines(p) # {}
          /\ (pc = "done" /\ GuardCount(In(p)) = 0 /\ ~EndsWithCloser(In(p)))
                => /\ WrittenData(p) = ReadData(p)
                   /\ Out(p) = In(p)

\* a text that holds "if (!auth) {" and a "\n}" but neither a guard
\* occurrence nor the trailing closer was rewritten unchanged and reported
C9_Witness ==
    /\ pc = "done" /\ Patched(files[1])
    /\ GuardCount(In(files[1])) = 0 /\ ~EndsWithCloser(In(files[1]))
    /\ Count(<< NL, RB >>, In(files[1])) > 0
    /\ Count(<< IFAUTH >>, In(files[1])) > 0
    /\ out[1] = Line("Fixed", files[1], NoErr)

\* C10 as stated: setup blocks inserted = guard occurrences of the input;
\* at most one teardown block, exactly one iff the input ends with the
\* trailing closer; "try {" and "} finally {" are inserted in equal number
\* only when the input has exactly one guard and ends with the closer.
C10_AsStated ==
    \A p \in FileSet :
        (pc = "done" /\ Patched(p) /\ Unpatched(In(p)))
        => /\ Count(SetupBlock, Out(p)) = GuardCount(In(p))
           /\ Count(TeardownBlock, Out(p)) <= 1
           /\ Count(TeardownBlock, Out(p)) = 1 <=> EndsWithCloser(In(p))
           /\ Count(<< TRY >>, Out(p)) = Count(<< FIN >>, Out(p))
                => (GuardCount(In(p)) = 1 /\ EndsWithCloser(In(p)))

\* C10 amended: setup blocks inserted = guard occurrences of the input; at
\* most one teardown block, exactly one iff the text handed to the second
\* substitution ends with the trailing closer; "try {" and "} finally {"
\* are inserted in equal number only when the input has exactly one guard
\* and that text ends with the closer, or the input has no guard and does
\* not end with the closer (none of either is inserted).
C10_BlockCounts ==
    \A p \in FileSet :
        (pc = "done" /\ Patched(p) /\ Unpatched(In(p)))
        => /\ Count(SetupBlock, Out(p)) = GuardCount(In(p))
           /\ Count(TeardownBlock, Out(p)) <= 1
           /\ Count(TeardownBlock, Out(p)) = 1 <=> EndsWithCloser(AfterA(p))
           /\ Count(<< TRY >>, Out(p)) = Count(<< FIN >>, Out(p))
                => \/ GuardCount(In(p)) = 1 /\ EndsWithCloser(AfterA(p))
                   \/ GuardCount(In(p)) = 0 /\ ~EndsWithCloser(In(p))

\* two guards and a trailing closer: two openers, one closer
C10_Witness ==
    /\ pc = "done" /\ run = 1 /\ Patched(files[1])
    /\ GuardCount(In(files[1])) = 2
    /\ Count(<< TRY >>, Out(files[1])) = 2
    /\ Count(<< FIN >>, Out(files[1])) = 1


\* ------------------------------------------------ properties of one run
OpsOf(p, o) == { k \in 1..Len(ops) : ops[k].path = p /\ ops[k].op = o }
Done(p, o) == \E k \in OpsOf(p, o) : ops[k].ok
Failed(p, o) == \E k \in OpsOf(p, o) : ~ops[k].ok

\* read, both substitutions and write of p all completed
Completed(p) == Done(p, "read") /\ Done(p, "subA") /\ Done(p, "subB") /\ Done(p, "write")

\* how far the run has come: the paths finished, then the step within the
\* current path
Stage ==
    CASE pc = "read" -> 0 [] pc = "subA" -> 1 [] pc = "subB" -> 2 [] pc = "write" -> 3
      [] pc = "fixed" -> 4 [] pc = "except" -> 5 [] pc = "done" -> 6
Progress == 6 * (i - 1) + Stage

\* C5: whatever fails on whichever paths, the run ends (at a read, a write
\* or a print it can always take a step without any fault, the two
\* substitutions are total, and every step brings it nearer to the end),
\* with status 0 and having attempted all five paths; every path whose own
\* read and write did not fail was read, transformed and written, whatever
\* happened to the paths before it.
C5_FailureIsolation ==
    /\ [](exitCode \in { NoExit, << 0 >> })
    /\ [](pc = "done" =>
            /\ exitCode = << 0 >>
            /\ \A p \in FileSet :
                  /\ OpsOf(p, "read") # {}
                  /\ (Failed(p, "read") \/ Failed(p, "write") \/ Completed(p)))
    /\ [](pc \in { "read", "subA", "subB", "write", "fixed", "except", "done" })
    /\ [](pc \in { "read", "write", "fixed", "except" }
            => ENABLED (ReadOk \/ ReadMissing \/ Exit \/ WriteOk \/ PrintFixed \/ PrintError))
    /\ [](Progress <= 6 * Len(files) + 6)
    /\ [][Progress' > Progress]_vars

\* the first path was missing, the second failed to read, the third failed
\* to write, and the fifth was still patched
C5_Witness ==
    /\ pc = "done" /\ exitCode = << 0 >>
    /\ fsOrig[files[1]] = Missing
    /\ fsOrig[files[2]] # Missing /\ Failed(files[2], "read")
    /\ Failed(files[3], "write")
    /\ Completed(files[5])

\* C6: the output is one line per path handled so far, in list order; a
\* line is "Fixed" exactly when the path's read, substitutions and write
\* all completed, and is otherwise an error line with the path and the
\* error; a finished run has printed five lines.
C6_OneLinePerPath ==
    /\ Len(out) = i - 1
    /\ pc = "done" => Len(out) = Len(files)
    /\ \A k \in 1..Len(out) :
          /\ out[k].path = files[k]
          /\ out[k].kind \in { "Fixed", "Error" }
          /\ out[k].kind = "Fixed" <=> Completed(files[k])
          /\ out[k].kind = "Fixed" => out[k] = Line("Fixed", files[k], NoErr)
          /\ out[k].kind = "Error" => out[k].error # NoErr

C6_Witness ==
    /\ pc = "done"
    /\ out[1].kind = "Fixed" /\ out[2].kind = "Error" /\ out[3].kind = "Fixed"
    /\ Failed(files[2], "write")

\* C7: a path whose read failed keeps its file as it was, is read once and
\* never opened for writing, gets exactly one line, an error line naming
\* it, and the loop goes on to read the paths after it.
C7_ReadFailureLeavesFile ==
    \A p \in FileSet :
        Failed(p, "read") =>
          /\ fs[p] = fsOrig[p]
          /\ Cardinality(OpsOf(p, "read")) = 1
          /\ OpsOf(p, "write") = {}
          /\ Index(p) <= i
          /\ Index(p) = i => (pc = "except" /\ Lines(p) = {})
          /\ Index(p) < i =>
                /\ Cardinality(Lines(p)) = 1
                /\ \A k \in Lines(p) : out[k].kind = "Error" /\ out[k].error # NoErr
                /\ \A q \in FileSet : (Index(p) < Index(q) /\ Index(q) < i) => OpsOf(q, "read") # {}

\* an existing file could not be read, stayed as it was, and the last path
\* was patched afterwards
C7_Witness ==
    /\ pc = "done"
    /\ fsOrig[files[1]] # Missing /\ Failed(files[1], "read")
    /\ out[1].kind = "Error"
    /\ Completed(files[5])

\* C8: every step of a run names a path of the list; each path is read at
\* most once and written at most once; a write follows the read of the
\* same path with no other read in between; no file outside the list
\* changes, none appears or disappears, and a listed file changes only by
\* the run's write to it.
C8_OnlyListedPaths ==
    /\ \A k \in 1..Len(ops) : ops[k].path \in FileSet
    /\ \A p \in FileSet : /\ Cardinality(OpsOf(p, "read")) <= 1
                          /\ Cardinality(OpsOf(p, "write")) <= 1
    /\ \A k \in 1..Len(ops) :
          ops[k].op = "write" =>
             \E j \in 1..(k - 1) :
                /\ ops[j] = Op("read", ops[k].path, TRUE, ops[j].data)
                /\ \A n \in (j + 1)..(k - 1) : ops[n].op # "read"
    /\ \A p \in Paths \ FileSet : fs[p] = fsOrig[p]
    /\ \A p \in Paths : (fs[p] = Missing) <=> (fsOrig[p] = Missing)
    /\ \A p \in FileSet : fs[p] # fsOrig[p] => OpsOf(p, "write") # {}

C8_Witness ==
    /\ pc = "done"
    /\ \A p \in FileSet : Completed(p)
    /\ fs[files[1]] # fsOrig[files[1]]

====
